---- MODULE Spec2Model ----
(***************************************************************************)
(* The ts-webcam session core (class Webcam): the status state machine,    *)
(* the resolution negotiation of start(), stop()/clearError(), the         *)
(* configuration updates with their restart, and the platform events.      *)
(*                                                                         *)
(* Granularity: JavaScript runs a handler to its next platform await, so   *)
(* one action is a public call up to its first pending platform promise,   *)
(* or the continuation that runs when a pending promise (getUserMedia,     *)
(* HTMLMediaElement.play, enumerateDevices) settles, up to the next one.   *)
(* Spec is the documented use: the caller makes no call while a start()    *)
(* is in flight (CallerMay); platform events arrive at any time.           *)
(* SpecEvents adds the change listeners and the devicechange event;        *)
(* SpecNegotiation runs start() from every shape of configuration.         *)
(***************************************************************************)
EXTENDS Integers, Sequences, FiniteSets, TLC

\* ------------------------------------------------------------- bounds
\* Streams that may be live at the same time: the platform refuses an
\* acquisition beyond them.
MaxStreams == 2
\* Length of the longest candidate resolution list.
MaxRes == 2
\* Listener pairs that may be attached at the same time.
MaxListeners == 1
\* Largest width and height createResolution is called with.
MaxSide == 12

\* ------------------------------------------------------------- values
\* MediaDeviceInfo references; NullDevice is the default configuration's null.
NullDevice == 0
Devices == {1, 2}
\* state.stream = null
NullStream == 0
\* Names of stream objects. A new stream takes a name other than the one
\* state.stream holds, so a replaced stream shows; StaleStream names a
\* stream the preview element still refers to and state.stream no longer.
StreamIds == {1, 2}
StaleStream == 3

PermissionState == {"granted", "denied", "prompt"}

WebcamStatus == {"idle", "initializing", "ready", "error"}

CameraErrorCode ==
    {"no-permissions-api", "permission-denied", "microphone-permission-denied",
     "configuration-error", "no-device", "no-media-devices-support",
     "invalid-device-id", "no-resolutions", "camera-start-error",
     "camera-initialization-error", "no-stream", "camera-settings-error",
     "camera-stop-error", "camera-already-in-use", "zoom-not-supported",
     "torch-not-supported", "focus-not-supported", "device-list-error",
     "unknown"}

\* state.captureCanvas, the canvas captureImage() draws on: as created,
\* resized to the track's settings, or holding a frame of the preview.
CanvasState == {"blank", "sized", "drawn"}

\* An error value: a CameraError (code of the taxonomy; res names the
\* resolution key its message carries, 0 when it carries none) or a raw
\* fault (code outside the taxonomy: "TypeError", "null", a DOMException).
Err(code, res) == [code |-> code, res |-> res]
\* lastError = null / nothing thrown
NoError == Err("none", 0)
\* the value of `throw lastError` when no candidate was tried
ThrownNull == Err("null", 0)

\* new CameraError(...) instanceof CameraError
IsCameraError(e) == e.code \in CameraErrorCode

\* A Resolution made by createResolution: its number r stands for the key.
Width(r) == 320 * (r + 1)
Height(r) == 240 * (r + 1)

\* configuration.resolution: absent, one Resolution, or an array.
AbsentResolution == [kind |-> "absent", list |-> <<>>]
SingleResolution(r) == [kind |-> "single", list |-> <<r>>]
ResolutionArray(l) == [kind |-> "array", list |-> l]
Ascending(n) == [i \in 1..n |-> i]
Descending(n) == [i \in 1..n |-> n + 1 - i]

\* The user-agent classifier's answer (isMobile() || isTablet()): a desktop.
isMobileOrTablet == FALSE

getDefaultConfiguration ==
    [audio |-> FALSE,
     device |-> NullDevice,
     mirrorEnabled |-> FALSE,
     previewElement |-> FALSE,
     allowAnyResolution |-> TRUE,
     allowSwapResolution |-> isMobileOrTablet,
     resolution |-> AbsentResolution]

\* { ...base, ...partial }
Merge(base, partial) ==
    [f \in DOMAIN base |-> IF f \in DOMAIN partial THEN partial[f] ELSE base[f]]

NoCapabilities ==
    [hasZoom |-> FALSE, hasTorch |-> FALSE, hasFocus |-> FALSE,
     currentZoom |-> 1, minZoom |-> 1, maxZoom |-> 1,
     isTorchActive |-> FALSE, isFocusActive |-> FALSE,
     activeFocusMode |-> "none", availableFocusModes |-> {}]

\* What track.getCapabilities()/getSettings() of a stream of device d give:
\* device 1 is a plain camera, device 2 has zoom, torch and focus modes.
TrackCapabilities(d) ==
    IF d = 2
    THEN [hasZoom |-> TRUE, hasTorch |-> TRUE, hasFocus |-> TRUE,
          currentZoom |-> 1, minZoom |-> 1, maxZoom |-> 3,
          isTorchActive |-> FALSE, isFocusActive |-> TRUE,
          activeFocusMode |-> "continuous",
          availableFocusModes |-> {"continuous", "manual"}]
    ELSE NoCapabilities

VARIABLES
    state,      \* Webcam.state
    listeners,  \* deviceChangeListener/orientationChangeListener and what is attached
    preview,    \* the HTMLVideoElement given as previewElement
    media,      \* the platform's streams: the held one, and the live ones let go
    proc,       \* the start() in flight, with openCamera's locals
    ev          \* what the last step showed its caller: thrown, callbacks, settlement

vars == <<state, listeners, preview, media, proc, ev>>

\* A call start() makes of the platform (getUserMedia for a permission,
\* for an exact or for an ideal resolution, or play() on the preview
\* element), logged in proc.log with the platform's answer once it is in.
Request(kind, res, dev, width, height) ==
    [kind |-> kind, res |-> res, dev |-> dev, width |-> width, height |-> height,
     outcome |-> "pending"]

\* the pending call, the last of the log, is answered
Answered(p, outcome) == [p EXCEPT !.log[Len(p.log)].outcome = outcome]

\* The platform's view of the streams it handed out: whether the tracks of
\* the stream state.stream refers to are live, the device it was acquired
\* from, and how many streams nothing refers to any more are still live
\* (never stopped).
NoMedia == [live |-> FALSE, dev |-> NullDevice, leaked |-> 0]

\* What a start() last acquired: the stream, and the kind and resolution of
\* the request that gave it.
Acquisition(request, stream) ==
    [kind |-> request.kind, res |-> request.res, stream |-> stream]
NoAcquisition == [kind |-> "none", res |-> 0, stream |-> NullStream]

\* The constraint set setZoom/setTorch/setFocusMode pass to
\* applyConstraints: kind names the member it has.
NoConstraint == [kind |-> "none", zoom |-> 0, torch |-> FALSE, focusMode |-> "none"]

IdleProc ==
    [pc |-> "idle", viaRestart |-> FALSE, cameraPermission |-> "prompt",
     resolutions |-> <<>>, i |-> 0, lastError |-> NoError, case |-> 0,
     dev |-> NullDevice, log |-> <<>>, got |-> NoAcquisition,
     constraint |-> NoConstraint]

NoEvent ==
    [thrown |-> NoError, result |-> "none",
     onStart |-> <<>>, onError |-> <<>>, stopped |-> {},
     log |-> <<>>, list |-> <<>>, won |-> NoAcquisition, stops |-> 0,
     returned |-> <<>>, restart |-> FALSE, called |-> <<>>]

InitialState ==
    [status |-> "idle",
     configuration |-> getDefaultConfiguration,
     stream |-> NullStream,
     lastError |-> NoError,
     devices |-> {},
     capabilities |-> NoCapabilities,
     captureCanvas |-> "blank",
     currentPermission |-> [camera |-> "prompt", microphone |-> "prompt"]]

Init ==
    /\ state = InitialState
    /\ listeners = [current |-> FALSE, attached |-> 0]
    /\ preview = [srcObject |-> NullStream, transform |-> "none"]
    /\ media = NoMedia
    /\ proc = IdleProc
    /\ ev = NoEvent

\* ------------------------------------------------------------- the world
\* The synchronous code is modelled as functions of a world w: the object's
\* state, the preview element, the platform's streams, the listeners and
\* the callbacks invoked and the streams stopped so far in this step, the
\* value the call returns (none: <<>>), and the arguments a pure function
\* of the object was called with.
World ==
    [s |-> state, pv |-> preview, md |-> media, ls |-> listeners,
     onStart |-> <<>>, onError |-> <<>>, stopped |-> {}, returned |-> <<>>,
     called |-> <<>>]

\* state.stream is about to refer to something else: an element showing the
\* stream it held shows a stream the state no longer names
Forget(w) ==
    IF w.s.stream # NullStream /\ w.pv.srcObject = w.s.stream
    THEN [w.pv EXCEPT !.srcObject = StaleStream]
    ELSE w.pv

\* state.stream is overwritten or nulled without its tracks being stopped
LetGo(w) ==
    [NoMedia EXCEPT !.leaked =
        IF w.s.stream # NullStream /\ w.md.live THEN w.md.leaked + 1 ELSE w.md.leaked]

LiveStreams(w) == w.md.leaked + (IF w.s.stream # NullStream /\ w.md.live THEN 1 ELSE 0)

isActive(w) ==
    w.s.stream # NullStream /\ w.md.live

\* state.configuration = null (never stored: the constructor sets the defaults)
NullConfiguration == [null |-> TRUE]

checkConfiguration(w) == w.s.configuration # NullConfiguration

\* Mutation of handleError: the onError hook is not invoked.
handleErrorWithoutHook(w, error) ==
    LET e == IF IsCameraError(error) THEN error ELSE Err("unknown", 0)
    IN [w EXCEPT !.s.status = "error",
                 !.s.lastError = e]

handleError(w, error) ==
    LET e == IF IsCameraError(error) THEN error ELSE Err("unknown", 0)
    IN [w EXCEPT !.s.status = "error",
                 !.s.lastError = e,
                 !.onError = Append(@, e)]

\* Mutation of stopStream: the reference is dropped, the tracks are not
\* stopped.
stopStreamKeepingTracks(w) ==
    LET w1 == [w EXCEPT !.md = LetGo(w), !.pv = Forget(w), !.s.stream = NullStream]
    IN IF w1.s.configuration.previewElement
       THEN [w1 EXCEPT !.pv.srcObject = NullStream]
       ELSE w1

stopStream(w) ==
    LET w1 == IF w.s.stream # NullStream
              THEN [w EXCEPT !.md = [NoMedia EXCEPT !.leaked = w.md.leaked],
                             !.pv = Forget(w),
                             !.stopped = @ \cup {w.s.stream},
                             !.s.stream = NullStream]
              ELSE w
    IN IF w1.s.configuration.previewElement
       THEN [w1 EXCEPT !.pv.srcObject = NullStream]
       ELSE w1

stopChangeListeners(w) ==
    IF w.ls.current
    THEN [w EXCEPT !.ls.current = FALSE, !.ls.attached = @ - 1]
    ELSE w

resetState(w) ==
    LET w1 == stopChangeListeners(w)
    IN [w1 EXCEPT !.s.status = "idle",
                  !.md = LetGo(w1),
                  !.pv = Forget(w1),
                  !.s.stream = NullStream,
                  !.s.lastError = NoError,
                  !.s.capabilities = NoCapabilities]

\* Mutation of stop: with nothing held it reports a camera-stop-error.
stopReportingIdle(w) ==
    IF w.s.stream = NullStream
    THEN handleError(w, Err("camera-stop-error", 0))
    ELSE resetState(stopStream(w))

stop(w) == resetState(stopStream(w))

\* Mutation of clearError: the status goes back to IDLE whatever is held.
clearErrorAlwaysIdle(w) ==
    [w EXCEPT !.s.lastError = NoError, !.s.status = "idle"]

clearError(w) ==
    LET w1 == [w EXCEPT !.s.lastError = NoError]
    IN IF ~isActive(w1) THEN [w1 EXCEPT !.s.status = "idle"] ELSE w1

updateCapabilities(w) ==
    IF w.s.stream = NullStream
    THEN w
    ELSE [w EXCEPT !.s.capabilities = TrackCapabilities(w.md.dev)]

\* setupPreviewElement up to its await of play()
previewAttaches(w) ==
    w.s.configuration.previewElement /\ w.s.stream # NullStream

setupPreviewElement(w) ==
    IF previewAttaches(w)
    THEN [w EXCEPT !.pv.srcObject = w.s.stream,
                   !.pv.transform =
                       IF w.s.configuration.mirrorEnabled THEN "scaleX(-1)" ELSE "none"]
    ELSE w

\* ------------------------------------------------------------- start()
\* requestMediaPermission's getUserMedia({video: true}) / ({audio: true})
PermissionRequest(mediaType) == Request(mediaType, 0, NullDevice, 0, 0)

\* buildConstraints(resolution): exact width/height, swapped on request
buildConstraints(cfg, r) ==
    IF cfg.allowSwapResolution
    THEN Request("exact", r, cfg.device, Height(r), Width(r))
    ELSE Request("exact", r, cfg.device, Width(r), Height(r))

\* tryAnyResolution's constraints: ideal 3840x2160
IdealWidth == 3840
IdealHeight == 2160
anyConstraints(cfg) == Request("any", 0, cfg.device, IdealWidth, IdealHeight)

\* The result of running start()'s code from some point to its next await
\* (out = "pending") or to the settlement of its promise.
Pending(w, p) == [w |-> w, p |-> p, out |-> "pending", thrown |-> NoError]

\* Mutation of restartCatch: handleError is passed bound, and runs again.
restartCatchBound(w, error) == handleError(w, error)

\* updateConfiguration's start().catch(this.handleError): handleError is
\* passed unbound, so it runs with this = undefined and throws a TypeError
\* at this.state before it touches anything.
restartCatch(w, error) == w

\* Mutation of startFailed: the catch block rethrows without handleError.
startFailedSilently(w, p, error) ==
    LET e == IF IsCameraError(error) THEN error ELSE Err("camera-start-error", 0)
    IN [w |-> w, p |-> p, out |-> "rejected", thrown |-> e]

\* start()'s catch block, and its rejection
startFailed(w, p, error) ==
    LET e == IF IsCameraError(error) THEN error ELSE Err("camera-start-error", 0)
        w1 == handleError(w, e)
        thrown == w1.s.lastError
        w2 == IF p.viaRestart THEN restartCatch(w1, thrown) ELSE w1
    IN [w |-> w2, p |-> p, out |-> "rejected", thrown |-> thrown]

\* Mutation of started: onStart is invoked before the status is set.
startedNotifyingFirst(w, p) ==
    LET w1 == [w EXCEPT !.onStart =
                   Append(@, [status |-> w.s.status, stream |-> w.s.stream])]
        w2 == [w1 EXCEPT !.s.status = "ready"]
    IN [w |-> w2, p |-> p, out |-> "resolved", thrown |-> NoError]

\* the end of tryResolution/tryAnyResolution: READY, then onStart
started(w, p) ==
    LET w1 == [w EXCEPT !.s.status = "ready"]
        w2 == [w1 EXCEPT !.onStart =
                   Append(@, [status |-> w1.s.status, stream |-> w1.s.stream])]
    IN [w |-> w2, p |-> p, out |-> "resolved", thrown |-> NoError]

CandidateError(r) == Err("camera-initialization-error", r)
AnyResolutionError == Err("camera-initialization-error", 0)

\* tryAnyResolution up to its getUserMedia; openCamera rewraps what it throws
tryAnyResolution(w, p) ==
    IF w.s.configuration.device = NullDevice
    THEN startFailed(w, p, AnyResolutionError)
    ELSE Pending(w, [p EXCEPT !.pc = "any",
                              !.dev = w.s.configuration.device,
                              !.log = Append(@, anyConstraints(w.s.configuration))])

\* Mutation of afterCandidates: no fallback, whatever allowAnyResolution says.
afterCandidatesWithoutFallback(w, p) == startFailed(w, p, p.lastError)

\* Mutation of afterCandidates: a list whose candidates all failed is walked
\* again from its first candidate.
afterCandidatesStartingOver(w, p) ==
    IF p.resolutions = <<>> \/ w.s.configuration.device = NullDevice
    THEN startFailed(w, p, p.lastError)
    ELSE Pending(w, [p EXCEPT
             !.pc = "exact",
             !.i = 1,
             !.dev = w.s.configuration.device,
             !.log = <<buildConstraints(w.s.configuration, p.resolutions[1])>>])

\* openCamera after its loop (case 3)
afterCandidates(w, p) ==
    IF w.s.configuration.allowAnyResolution
    THEN tryAnyResolution(w, [p EXCEPT !.case = 3])
    ELSE startFailed(w, p, p.lastError)

RECURSIVE tryCandidates(_, _, _)

\* Mutation of tryCandidates: the list is walked from its end.
tryCandidatesBackwards(w, p, i) ==
    LET r == p.resolutions[Len(p.resolutions) + 1 - i]
    IN IF i > Len(p.resolutions)
       THEN afterCandidates(w, p)
       ELSE IF w.s.configuration.device = NullDevice
            THEN tryCandidates(w, [p EXCEPT !.lastError = CandidateError(r)], i + 1)
            ELSE Pending(w, [p EXCEPT
                     !.pc = "exact",
                     !.i = i,
                     !.dev = w.s.configuration.device,
                     !.log = Append(@, buildConstraints(w.s.configuration, r))])

\* openCamera's loop from candidate i on: buildConstraints throws a
\* TypeError on a null device, which the loop records like any failure.
tryCandidates(w, p, i) ==
    IF i > Len(p.resolutions)
    THEN afterCandidates(w, p)
    ELSE IF w.s.configuration.device = NullDevice
         THEN tryCandidates(
                  w, [p EXCEPT !.lastError = CandidateError(p.resolutions[i])], i + 1)
         ELSE Pending(w, [p EXCEPT
                  !.pc = "exact",
                  !.i = i,
                  !.dev = w.s.configuration.device,
                  !.log = Append(@, buildConstraints(w.s.configuration,
                                                     p.resolutions[i]))])

\* Mutation of candidateFailed: the first failure is kept, later ones are
\* not recorded.
candidateFailedKeepingFirst(w, p) ==
    tryCandidates(w, [p EXCEPT !.lastError =
                         IF @ = ThrownNull THEN CandidateError(p.resolutions[p.i]) ELSE @],
                  p.i + 1)

\* the candidate in flight failed: record it, go on with the next
candidateFailed(w, p) ==
    tryCandidates(w, [p EXCEPT !.lastError = CandidateError(p.resolutions[p.i])],
                  p.i + 1)

openCamera(w, p) ==
    LET cfg == w.s.configuration
    IN IF cfg.resolution.kind = "absent"
       THEN IF ~cfg.allowAnyResolution
            THEN startFailed(w, p, Err("configuration-error", 0))
            ELSE tryAnyResolution(w, [p EXCEPT !.case = 1])
       ELSE tryCandidates(w, [p EXCEPT !.resolutions = cfg.resolution.list,
                                       !.lastError = ThrownNull,
                                       !.case = 2], 1)

\* Mutation of validatePermissions: only the microphone is looked at.
validatePermissionsOfMicrophone(w, camera, microphone) ==
    IF w.s.configuration.audio /\ microphone = "denied"
    THEN Err("microphone-permission-denied", 0)
    ELSE NoError

validatePermissions(w, camera, microphone) ==
    IF camera = "denied"
    THEN Err("permission-denied", 0)
    ELSE IF w.s.configuration.audio /\ microphone = "denied"
         THEN Err("microphone-permission-denied", 0)
         ELSE NoError

\* initializeWebcam once requestPermissions has its answer
afterPermissions(w, p, camera, microphone) ==
    LET e == validatePermissions(w, camera, microphone)
    IN IF e # NoError THEN startFailed(w, p, e) ELSE openCamera(w, p)

\* requestMediaPermission's classification of getUserMedia's outcome
PermissionOutcomes == {"ok", "NotAllowedError", "OtherError"}
permissionOf(outcome) ==
    IF outcome = "ok" THEN "granted"
    ELSE IF outcome = "NotAllowedError" THEN "denied" ELSE "prompt"

\* start() up to its first await: initializeWebcam sets INITIALIZING, clears
\* lastError, and requestPermissions asks for the camera.
startCall(w, viaRestart) ==
    Pending([w EXCEPT !.s.status = "initializing", !.s.lastError = NoError],
            [IdleProc EXCEPT !.pc = "permVideo",
                             !.viaRestart = viaRestart,
                             !.log = <<PermissionRequest("video")>>])

\* getUserMedia resolved: the stream it hands out, stored in state.stream
NewId(w) == IF w.s.stream = 1 THEN 2 ELSE 1

acquired(w, p) ==
    [w EXCEPT !.md = [LetGo(w) EXCEPT !.live = TRUE, !.dev = p.dev],
              !.pv = Forget(w),
              !.s.stream = NewId(w)]

\* whether the platform can grant one more stream
CanGrant(w) == LiveStreams(w) < MaxStreams

\* ------------------------------------------------------------- steps
WonBy(r) == IF r.out = "resolved" THEN r.p.got ELSE NoAcquisition

\* one step of the start() in flight
Commit(r) ==
    /\ state' = r.w.s
    /\ preview' = r.w.pv
    /\ media' = r.w.md
    /\ listeners' = r.w.ls
    /\ proc' = IF r.out = "pending" THEN r.p ELSE IdleProc
    /\ ev' = [thrown |-> r.thrown,
              result |-> IF r.out = "pending" THEN "none" ELSE r.out,
              onStart |-> r.w.onStart, onError |-> r.w.onError,
              stopped |-> r.w.stopped,
              log |-> IF r.out = "pending" THEN <<>> ELSE r.p.log,
              list |-> IF r.out = "pending" THEN <<>> ELSE r.p.resolutions,
              won |-> WonBy(r),
              stops |-> 0,
              returned |-> r.w.returned,
              restart |-> r.out # "pending" /\ r.p.viaRestart,
              called |-> r.w.called]

\* one synchronous public call (or event handler) that starts nothing;
\* stops counts the stop() calls made in a row, as far as two
CommitSync(w, thrown, stops) ==
    /\ state' = w.s
    /\ preview' = w.pv
    /\ media' = w.md
    /\ listeners' = w.ls
    /\ proc' = proc
    /\ ev' = [NoEvent EXCEPT !.thrown = thrown,
                             !.onStart = w.onStart, !.onError = w.onError,
                             !.stopped = w.stopped,
                             !.stops = stops,
                             !.returned = w.returned,
                             !.called = w.called]

\* The caller precondition: no call while a start() is in flight.
CallerMay == proc.pc = "idle"

Start ==
    /\ CallerMay
    /\ checkConfiguration(World)
    /\ Commit(startCall(World, FALSE))

PermVideoDone ==
    /\ proc.pc = "permVideo"
    /\ \E outcome \in PermissionOutcomes :
          LET perm == permissionOf(outcome)
              w == [World EXCEPT !.s.currentPermission.camera = perm]
              p == [Answered(proc, outcome) EXCEPT !.cameraPermission = perm]
          IN IF w.s.configuration.audio
             THEN Commit(Pending(w, [p EXCEPT !.pc = "permAudio",
                                     !.log = Append(@, PermissionRequest("audio"))]))
             ELSE Commit(afterPermissions(w, p, perm, "prompt"))

PermAudioDone ==
    /\ proc.pc = "permAudio"
    /\ \E outcome \in PermissionOutcomes :
          LET perm == permissionOf(outcome)
              w == [World EXCEPT !.s.currentPermission.microphone = perm]
          IN Commit(afterPermissions(w, Answered(proc, outcome),
                                     proc.cameraPermission, perm))

\* previewElement.play()
PlayRequest(dev) == Request("play", 0, dev, 0, 0)

\* tryResolution/tryAnyResolution once getUserMedia has resolved
afterAcquire(w, p, playPc) ==
    LET w1 == updateCapabilities(acquired(w, p))
        w2 == setupPreviewElement(w1)
        p1 == [p EXCEPT !.got = Acquisition(p.log[Len(p.log)], w1.s.stream)]
    IN IF previewAttaches(w1)
       THEN Pending(w2, [p1 EXCEPT !.pc = playPc,
                                   !.log = Append(@, PlayRequest(p.dev))])
       ELSE started(w2, p1)

ExactDone ==
    /\ proc.pc = "exact"
    /\ \E ok \in BOOLEAN :
          /\ ok => CanGrant(World)
          /\ Commit(IF ok THEN afterAcquire(World, Answered(proc, "ok"), "playExact")
                          ELSE candidateFailed(World, Answered(proc, "failed")))

PlayExactDone ==
    /\ proc.pc = "playExact"
    /\ \E ok \in BOOLEAN :
          Commit(IF ok THEN started(World, Answered(proc, "ok"))
                       ELSE candidateFailed(World, Answered(proc, "failed")))

AnyDone ==
    /\ proc.pc = "any"
    /\ \E ok \in BOOLEAN :
          /\ ok => CanGrant(World)
          /\ Commit(IF ok THEN afterAcquire(World, Answered(proc, "ok"), "playAny")
                          ELSE startFailed(World, Answered(proc, "failed"),
                                           AnyResolutionError))

\* after play(), tryAnyResolution reads this.state.stream.getVideoTracks():
\* a TypeError when a stop() has nulled the stream meanwhile, caught and
\* rewrapped like any failure of the attempt
PlayAnyDone ==
    /\ proc.pc = "playAny"
    /\ \E ok \in BOOLEAN :
          Commit(IF ok /\ state.stream # NullStream
                 THEN started(World, Answered(proc, "ok"))
                 ELSE startFailed(World, Answered(proc, IF ok THEN "ok" ELSE "failed"),
                                  AnyResolutionError))

Stop ==
    /\ CallerMay
    /\ checkConfiguration(World)
    /\ CommitSync(stop(World), NoError, IF ev.stops = 0 THEN 1 ELSE 2)

ClearError ==
    /\ CallerMay
    /\ CommitSync(clearError(World), NoError, 0)

\* stop() and clearError() are synchronous: a caller can make them between
\* two steps of a start() in flight, whose continuations then run on the
\* state they left.
StopMeanwhile ==
    /\ proc.pc # "idle"
    /\ checkConfiguration(World)
    /\ CommitSync(stop(World), NoError, 0)

ClearErrorMeanwhile ==
    /\ proc.pc # "idle"
    /\ CommitSync(clearError(World), NoError, 0)

\* setupConfiguration(configuration): the caller's fields over the defaults
SetupInputs ==
    [device : {NullDevice, 1},
     resolution : {AbsentResolution, ResolutionArray(Ascending(MaxRes))},
     allowAnyResolution : BOOLEAN,
     previewElement : BOOLEAN]

setupConfigurationThrows(c) == c.device = NullDevice

\* Mutation of setupConfiguration: the configuration is stored before the
\* device is looked at.
setupConfigurationStoringFirst(w, c) ==
    [w EXCEPT !.s.configuration = Merge(getDefaultConfiguration, c)]

setupConfiguration(w, c) ==
    IF setupConfigurationThrows(c)
    THEN w
    ELSE [w EXCEPT !.s.configuration = Merge(getDefaultConfiguration, c)]

SetupConfiguration ==
    /\ CallerMay
    /\ \E c \in SetupInputs :
        CommitSync(setupConfiguration(World, c),
                   IF setupConfigurationThrows(c)
                   THEN Err("invalid-device-id", 0) ELSE NoError, 0)

\* updateConfiguration(configuration, options) up to its start()
restarts(w, restart) == isActive(w) /\ restart

updateConfiguration(w, partial, restart) ==
    LET w1 == IF restarts(w, restart) THEN stop(w) ELSE w
        w2 == [w1 EXCEPT !.s.configuration = Merge(@, partial),
                         !.returned = <<Merge(w1.s.configuration, partial)>>]
    IN IF "mirror" \in DOMAIN partial /\ w2.s.configuration.previewElement
       THEN [w2 EXCEPT !.pv.transform =
                IF w2.s.configuration.mirrorEnabled THEN "scaleX(-1)" ELSE "none"]
       ELSE w2

UpdateConfiguration(partial, restart) ==
    /\ CallerMay
    /\ checkConfiguration(World)
    /\ LET w == updateConfiguration(World, partial, restart)
       IN IF restarts(World, restart)
          THEN Commit(startCall(w, TRUE))
          ELSE CommitSync(w, NoError, 0)

UpdateDevice ==
    \E d \in Devices : UpdateConfiguration([device |-> d], TRUE)

UpdateResolution ==
    \E r \in {SingleResolution(1), ResolutionArray(Ascending(MaxRes))} :
        UpdateConfiguration([resolution |-> r], TRUE)

\* What enumerateDevices() gives: the devices plugged in at that moment,
\* or a failure (also when the API is missing).
Enumeration(ok, devices) == [ok |-> ok, devices |-> devices]

\* getAvailableDevices(): the catalog is stored, a failure is reported by
\* the catch.
getAvailableDevices(w, found) ==
    IF found.ok
    THEN [w EXCEPT !.s.devices = found.devices]
    ELSE handleError(w, Err("device-list-error", 0))

\* refreshDevices(), awaited by its caller
RefreshDevices ==
    /\ CallerMay
    /\ \E ok \in BOOLEAN :
          CommitSync(getAvailableDevices(World, Enumeration(ok, Devices)), NoError, 0)

getCurrentDevice(w) == w.s.configuration.device

\* setupChangeListeners(): a first refreshDevices(), then a new pair of
\* listeners is attached and remembered in place of the previous pair.
setupChangeListeners(w, found) ==
    [getAvailableDevices(w, found) EXCEPT !.ls.current = TRUE, !.ls.attached = @ + 1]

SetupChangeListeners ==
    /\ CallerMay
    /\ listeners.attached < MaxListeners
    /\ \E ok \in BOOLEAN :
          CommitSync(setupChangeListeners(World, Enumeration(ok, Devices)), NoError, 0)

StopChangeListeners ==
    /\ CallerMay
    /\ CommitSync(stopChangeListeners(World), NoError, 0)

\* the devicechange listener
deviceChangeListener(w, found) ==
    LET w1 == getAvailableDevices(w, found)
    IN IF isActive(w1) /\ getCurrentDevice(w1) = NullDevice
       THEN stop(handleError(w1, Err("no-device", 0)))
       ELSE w1

\* The platform fires devicechange: an event, at any time.
DeviceChange ==
    /\ listeners.attached > 0
    /\ \E ok \in BOOLEAN :
          CommitSync(deviceChangeListener(World, Enumeration(ok, Devices)), NoError, 0)

\* devicechange fired because a device was unplugged: the catalog the
\* listener reads no longer has it.
DeviceRemoved ==
    /\ listeners.attached > 0
    /\ \E gone \in Devices :
          CommitSync(deviceChangeListener(World, Enumeration(TRUE, Devices \ {gone})),
                     NoError, 0)

\* The platform ends the tracks of a live stream (the camera is unplugged,
\* the permission revoked): the held one, or one the object let go of.
TrackEnded ==
    \/ /\ isActive(World)
       /\ CommitSync([World EXCEPT !.md.live = FALSE], NoError, 0)
    \/ /\ media.leaked > 0
       /\ CommitSync([World EXCEPT !.md.leaked = @ - 1], NoError, 0)

\* ------------------------------------------------------------- toggles
\* Mutation of toggleMirror: the update asks for a restart.
toggleMirrorRestarting(w) ==
    LET newValue == ~w.s.configuration.mirrorEnabled
        w1 == updateConfiguration(w, [mirrorEnabled |-> newValue], TRUE)
    IN [w1 EXCEPT !.returned = <<newValue>>]

toggleMirror(w) ==
    LET newValue == ~w.s.configuration.mirrorEnabled
        w1 == updateConfiguration(w, [mirrorEnabled |-> newValue], FALSE)
    IN [w1 EXCEPT !.returned = <<newValue>>]

ToggleMirror ==
    /\ CallerMay
    /\ checkConfiguration(World)
    /\ CommitSync(toggleMirror(World), NoError, 0)

\* toggle(setting)'s settings, and its shouldRestart
ToggleSettings == {"audio", "allowAnyResolution", "allowSwapResolution"}
\* Mutation of shouldRestart: only the audio setting restarts the session.
shouldRestartForAudio(setting) == setting = "audio"

shouldRestart(setting) == setting \in {"audio", "allowSwapResolution"}

\* navigator.permissions.query({name}): name is 'camera' or 'microphone'
PermissionNames == {"camera", "microphone"}
PermissionQuery(name) == Request(name, 0, NullDevice, 0, 0)

\* What checkMicrophonePermission's query can give: a PermissionState, or
\* nothing (the Permissions API is missing, or the query throws), which the
\* code reads as 'prompt'.
QueryOutcomes == PermissionState \cup {"unavailable"}
\* Mutation of queried: what the query gave is passed on as it is.
queriedAsGiven(outcome) == outcome

queried(outcome) == IF outcome = "unavailable" THEN "prompt" ELSE outcome

\* checkCameraPermission()/checkMicrophonePermission() up to the query
CheckPermission ==
    /\ CallerMay
    /\ \E name \in PermissionNames :
          Commit(Pending(World, [IdleProc EXCEPT !.pc = "permissionQuery",
                                                 !.log = <<PermissionQuery(name)>>]))

\* the query has its answer (or there was none to ask): the permission is
\* tracked and returned
CheckPermissionDone ==
    /\ proc.pc = "permissionQuery"
    /\ \E outcome \in QueryOutcomes :
          LET name == proc.log[1].kind
              perm == queried(outcome)
              w == [World EXCEPT !.s.currentPermission[name] = perm,
                                 !.returned = <<perm>>]
          IN Commit([w |-> w, p |-> Answered(proc, outcome), out |-> "checked",
                     thrown |-> NoError])

\* Mutation of toggleRefused: audio is switched on before the throw.
toggleRefusedAfterUpdate(w, p) ==
    [w |-> updateConfiguration(w, [audio |-> TRUE], FALSE), p |-> p,
     out |-> "refused", thrown |-> Err("microphone-permission-denied", 0)]

\* toggle()'s throw of microphone-permission-denied: its promise rejects
toggleRefused(w, p) ==
    [w |-> w, p |-> p, out |-> "refused",
     thrown |-> Err("microphone-permission-denied", 0)]

\* Mutation of toggleApply: the value toggle() was called on is written back.
toggleApplyKeeping(w, p, setting, newValue) ==
    LET w1 == updateConfiguration(w, [x \in {setting} |-> ~newValue],
                                  shouldRestart(setting))
        w2 == [w1 EXCEPT !.returned = <<newValue>>]
    IN IF restarts(w, shouldRestart(setting))
       THEN startCall(w2, TRUE)
       ELSE [w |-> w2, p |-> p, out |-> "toggled", thrown |-> NoError]

\* toggle() from its updateConfiguration on: the update (with the restart
\* it starts on an active session), and the return of newValue
toggleApply(w, p, setting, newValue) ==
    LET w1 == updateConfiguration(w, [x \in {setting} |-> newValue],
                                  shouldRestart(setting))
        w2 == [w1 EXCEPT !.returned = <<newValue>>]
    IN IF restarts(w, shouldRestart(setting))
       THEN startCall(w2, TRUE)
       ELSE [w |-> w2, p |-> p, out |-> "toggled", thrown |-> NoError]

\* toggle(setting) up to its first await: to switch audio on it first asks
\* for the microphone permission, anything else is applied at once.
Toggle ==
    /\ CallerMay
    /\ checkConfiguration(World)
    /\ \E setting \in ToggleSettings :
          LET newValue == ~state.configuration[setting]
          IN IF setting = "audio" /\ newValue
             THEN Commit(Pending(World,
                      [IdleProc EXCEPT !.pc = "micQuery",
                                       !.log = <<PermissionQuery("microphone")>>]))
             ELSE Commit(toggleApply(World, IdleProc, setting, newValue))

\* checkMicrophonePermission() has its answer
MicQueryDone ==
    /\ proc.pc = "micQuery"
    /\ \E outcome \in QueryOutcomes :
          LET perm == queried(outcome)
              w == [World EXCEPT !.s.currentPermission.microphone = perm]
              p == Answered(proc, outcome)
          IN Commit(IF perm = "prompt"
                    THEN Pending(w, [p EXCEPT
                             !.pc = "micRequest",
                             !.log = Append(@, PermissionRequest("audio"))])
                    ELSE IF perm = "denied"
                         THEN toggleRefused(w, p)
                         ELSE toggleApply(w, p, "audio", TRUE))

\* requestMediaPermission('audio') has its answer
MicRequestDone ==
    /\ proc.pc = "micRequest"
    /\ \E outcome \in PermissionOutcomes :
          LET perm == permissionOf(outcome)
              w == [World EXCEPT !.s.currentPermission.microphone = perm]
              p == Answered(proc, outcome)
          IN Commit(IF perm = "denied"
                    THEN toggleRefused(w, p)
                    ELSE toggleApply(w, p, "audio", TRUE))

\* ------------------------------------------------------------- controls
\* videoTrack.getCapabilities() of the held stream's track
trackCapabilities(w) == TrackCapabilities(w.md.dev)

\* a throw of setZoom/setTorch/setFocusMode: the promise rejects
controlRefused(w, p, code) ==
    [w |-> w, p |-> p, out |-> "refused", thrown |-> Err(code, 0)]

\* videoTrack.applyConstraints({advanced: [constraint]}), awaited
ApplyRequest(dev) == Request("apply", 0, dev, 0, 0)
applyConstraints(w, constraint) ==
    Pending(w, [IdleProc EXCEPT !.pc = "apply",
                                !.constraint = constraint,
                                !.log = <<ApplyRequest(w.md.dev)>>])

Min(a, b) == IF a <= b THEN a ELSE b
Max(a, b) == IF a >= b THEN a ELSE b

setZoom(w, zoomLevel) ==
    IF w.s.stream = NullStream \/ ~w.s.capabilities.hasZoom
    THEN controlRefused(w, IdleProc, "zoom-not-supported")
    ELSE LET capabilities == trackCapabilities(w)
         IN IF ~capabilities.hasZoom
            THEN controlRefused(w, IdleProc, "zoom-not-supported")
            ELSE applyConstraints(w,
                     [NoConstraint EXCEPT
                         !.kind = "zoom",
                         !.zoom = Min(Max(zoomLevel, capabilities.minZoom),
                                      capabilities.maxZoom)])

setTorch(w, active) ==
    IF w.s.stream = NullStream \/ ~w.s.capabilities.hasTorch
    THEN controlRefused(w, IdleProc, "torch-not-supported")
    ELSE IF ~trackCapabilities(w).hasTorch
         THEN controlRefused(w, IdleProc, "torch-not-supported")
         ELSE applyConstraints(w, [NoConstraint EXCEPT !.kind = "torch",
                                                       !.torch = active])

setFocusMode(w, mode) ==
    IF w.s.stream = NullStream \/ ~w.s.capabilities.hasFocus
    THEN controlRefused(w, IdleProc, "focus-not-supported")
    ELSE IF mode \notin trackCapabilities(w).availableFocusModes
         THEN controlRefused(w, IdleProc, "focus-not-supported")
         ELSE applyConstraints(w, [NoConstraint EXCEPT !.kind = "focusMode",
                                                       !.focusMode = mode])

\* the zoom levels, focus modes a caller asks for: below, within and above
\* the range of device 2; a mode no device has
ZoomInputs == {0, 2, 4}
FocusModeInputs == {"continuous", "manual", "macro"}

SetZoom ==
    /\ CallerMay
    /\ \E zoomLevel \in ZoomInputs : Commit(setZoom(World, zoomLevel))

SetTorch ==
    /\ CallerMay
    /\ \E active \in BOOLEAN : Commit(setTorch(World, active))

SetFocusMode ==
    /\ CallerMay
    /\ \E mode \in FocusModeInputs : Commit(setFocusMode(World, mode))

\* Mutation of applyFailed: the failure goes through handleError.
applyFailedReporting(w, p) ==
    [w |-> handleError(w, Err("camera-settings-error", 0)), p |-> p,
     out |-> "refused", thrown |-> Err("camera-settings-error", 0)]

\* the catch around applyConstraints
applyFailed(w, p) == controlRefused(w, p, "camera-settings-error")

\* applyConstraints resolved: the snapshot takes the value applied
applied(w, p) ==
    LET c == p.constraint
        w1 == IF c.kind = "zoom"
              THEN [w EXCEPT !.s.capabilities.currentZoom = c.zoom]
              ELSE IF c.kind = "torch"
                   THEN [w EXCEPT !.s.capabilities.isTorchActive = c.torch]
                   ELSE [w EXCEPT !.s.capabilities.activeFocusMode = c.focusMode,
                                  !.s.capabilities.isFocusActive = TRUE]
    IN [w |-> w1, p |-> p, out |-> "applied", thrown |-> NoError]

ApplyDone ==
    /\ proc.pc = "apply"
    /\ \E ok \in BOOLEAN :
          Commit(IF ok THEN applied(World, Answered(proc, "ok"))
                       ELSE applyFailed(World, Answered(proc, "failed")))

\* ------------------------------------------------------------- createResolution
\* Number-to-string of a non-negative integer, as a template literal does
\* it: its decimal digits
DecimalDigits == <<"0", "1", "2", "3", "4", "5", "6", "7", "8", "9">>

RECURSIVE NumberToString(_)
NumberToString(n) ==
    IF n < 10
    THEN DecimalDigits[n + 1]
    ELSE NumberToString(n \div 10) \o DecimalDigits[(n % 10) + 1]

\* Mutation of createResolution: the key has no separator.
createResolutionUnseparated(name, width, height) ==
    [key |-> NumberToString(width) \o NumberToString(height),
     name |-> name, width |-> width, height |-> height]

\* createResolution(name, width, height): key = `${width}x${height}`
createResolution(name, width, height) ==
    [key |-> NumberToString(width) \o "x" \o NumberToString(height),
     name |-> name, width |-> width, height |-> height]

ResolutionNames == {"low", "high"}

CreateResolution ==
    \E name \in ResolutionNames, width \in 0..MaxSide, height \in 0..MaxSide :
        CommitSync([World EXCEPT
                       !.returned = <<createResolution(name, width, height)>>,
                       !.called = <<name, width, height>>],
                   NoError, 0)

\* ------------------------------------------------------------- captureImage
\* captureImage(config); context: whether canvas.getContext('2d') gives a
\* context. drawImage throws a TypeError when the configuration has no
\* preview element to draw from.
captureImage(w, context) ==
    IF w.s.stream = NullStream
    THEN [w |-> w, thrown |-> Err("no-stream", 0)]
    ELSE IF ~context
         THEN [w |-> w, thrown |-> Err("camera-settings-error", 0)]
         ELSE LET w1 == [w EXCEPT !.s.captureCanvas = "sized"]
              IN IF ~w.s.configuration.previewElement
                 THEN [w |-> w1, thrown |-> Err("TypeError", 0)]
                 ELSE [w |-> [w1 EXCEPT !.s.captureCanvas = "drawn",
                                        !.returned = <<"data:image">>],
                       thrown |-> NoError]

\* captureImage() is synchronous: it can be called at any time, also
\* between two steps of a start() in flight.
CaptureImage ==
    /\ checkConfiguration(World)
    /\ \E context \in BOOLEAN :
          LET r == captureImage(World, context)
          IN CommitSync(r.w, r.thrown, 0)

\* A DeviceCapabilitiesData as checkDevicesCapabilitiesData returns it: the
\* bounds, and (of its further members) hasZoom
Probe(deviceId, minWidth, maxWidth, minHeight, maxHeight) ==
    [deviceId |-> deviceId, minWidth |-> minWidth, maxWidth |-> maxWidth,
     minHeight |-> minHeight, maxHeight |-> maxHeight, hasZoom |-> deviceId = 2]

\* Mutation of checkSupportedResolutions: the last probe is the one read.
checkSupportedResolutionsOfLast(deviceCapabilities, desiredResolutions) ==
    IF deviceCapabilities = <<>>
    THEN [thrown |-> Err("TypeError", 0), returned |-> <<>>]
    ELSE LET capability == deviceCapabilities[Len(deviceCapabilities)]
         IN [thrown |-> NoError,
             returned |->
               <<[resolutions |->
                    [i \in 1..Len(desiredResolutions) |->
                       LET r == desiredResolutions[i]
                       IN [key |-> r, width |-> Width(r), height |-> Height(r),
                           supported |->
                               /\ Width(r) <= capability.maxWidth
                               /\ Height(r) <= capability.maxHeight
                               /\ Width(r) >= capability.minWidth
                               /\ Height(r) >= capability.minHeight]],
                  deviceInfo |->
                    [deviceId |-> capability.deviceId,
                     maxWidth |-> capability.maxWidth,
                     maxHeight |-> capability.maxHeight,
                     minWidth |-> capability.minWidth,
                     minHeight |-> capability.minHeight]]>>]

\* checkSupportedResolutions(deviceCapabilities, desiredResolutions): the
\* first probe is read without a test, a TypeError on an empty list.
checkSupportedResolutions(deviceCapabilities, desiredResolutions) ==
    IF deviceCapabilities = <<>>
    THEN [thrown |-> Err("TypeError", 0), returned |-> <<>>]
    ELSE LET capability == deviceCapabilities[1]
         IN [thrown |-> NoError,
             returned |->
               <<[resolutions |->
                    [i \in 1..Len(desiredResolutions) |->
                       LET r == desiredResolutions[i]
                       IN [key |-> r, width |-> Width(r), height |-> Height(r),
                           supported |->
                               /\ Width(r) <= capability.maxWidth
                               /\ Height(r) <= capability.maxHeight
                               /\ Width(r) >= capability.minWidth
                               /\ Height(r) >= capability.minHeight]],
                  deviceInfo |->
                    [deviceId |-> capability.deviceId,
                     maxWidth |-> capability.maxWidth,
                     maxHeight |-> capability.maxHeight,
                     minWidth |-> capability.minWidth,
                     minHeight |-> capability.minHeight]]>>]

\* the probe lists and the desired resolutions the caller passes: no
\* probe, one, two with different bounds (the first admits one height
\* only); resolutions from below the bounds to above them
ProbeInputs ==
    {<<>>, <<Probe(1, 640, 960, 480, 720)>>,
     <<Probe(2, 320, 960, 480, 480), Probe(1, 640, 960, 480, 720)>>}
DesiredInputs ==
    {Ascending(n) : n \in 0..MaxRes}
        \cup {Descending(MaxRes), [i \in 1..(MaxRes + 1) |-> i - 1]}

CheckSupportedResolutions ==
    \E probes \in ProbeInputs, desired \in DesiredInputs :
        LET r == checkSupportedResolutions(probes, desired)
        IN CommitSync([World EXCEPT !.returned = r.returned,
                                    !.called = <<probes, desired>>],
                      r.thrown, 0)

\* ------------------------------------------------------------- transient acquisitions
\* Mutation of requestMediaPermission: the outcome is always tracked as the
\* camera's.
requestMediaPermissionOfCamera(w, mediaType, outcome) ==
    [w EXCEPT !.s.currentPermission.camera = permissionOf(outcome)]

\* requestMediaPermission(mediaType) once its getUserMedia has settled: a
\* stream it was given is stopped at once (the platform's streams are as
\* before), and the permission is tracked
requestMediaPermission(w, mediaType, outcome) ==
    LET permissionType == IF mediaType = "video" THEN "camera" ELSE "microphone"
    IN [w EXCEPT !.s.currentPermission[permissionType] = permissionOf(outcome)]

\* requestPermissions() up to its first await: the camera is asked for
RequestPermissions ==
    /\ CallerMay
    /\ Commit(Pending(World, [IdleProc EXCEPT !.pc = "requestVideo",
                                              !.log = <<PermissionRequest("video")>>]))

\* requestPermissions() returns {camera, microphone}
permitted(w, p, camera, microphone) ==
    [w |-> [w EXCEPT !.returned = <<[camera |-> camera, microphone |-> microphone]>>],
     p |-> p, out |-> "permitted", thrown |-> NoError]

\* the camera request has its answer: the microphone is asked for only if
\* the configuration has audio, and is 'prompt' otherwise
RequestVideoDone ==
    /\ proc.pc = "requestVideo"
    /\ \E outcome \in PermissionOutcomes :
          LET w == requestMediaPermission(World, "video", outcome)
              p == [Answered(proc, outcome) EXCEPT
                       !.cameraPermission = permissionOf(outcome)]
          IN IF w.s.configuration.audio
             THEN Commit(Pending(w, [p EXCEPT !.pc = "requestAudio",
                                     !.log = Append(@, PermissionRequest("audio"))]))
             ELSE Commit(permitted(w, p, p.cameraPermission, "prompt"))

RequestAudioDone ==
    /\ proc.pc = "requestAudio"
    /\ \E outcome \in PermissionOutcomes :
          Commit(permitted(requestMediaPermission(World, "audio", outcome),
                           Answered(proc, outcome),
                           proc.cameraPermission, permissionOf(outcome)))

\* checkDevicesCapabilitiesData(deviceId)'s getUserMedia({video: {deviceId:
\* {exact: deviceId}}})
ProbeRequest(deviceId) == Request("probe", 0, deviceId, 0, 0)

CheckDevicesCapabilitiesData ==
    /\ CallerMay
    /\ \E deviceId \in Devices :
          Commit(Pending(World, [IdleProc EXCEPT !.pc = "probe",
                                                 !.dev = deviceId,
                                                 !.log = <<ProbeRequest(deviceId)>>]))

\* What the probe's getUserMedia and the reading of its track can give: no
\* stream; a stream whose capabilities are read; a stream whose
\* getCapabilities() throws (the method is missing from the browser's
\* MediaStreamTrack).
ProbeOutcomes == {"failed", "ok", "unreadable"}

\* the catch of checkDevicesCapabilitiesData: whatever was thrown, before
\* or after the stream was given, is wrapped and rethrown
probeFailed(w, p) ==
    [w |-> w, p |-> p, out |-> "refused", thrown |-> Err("camera-settings-error", 0)]

\* getCapabilities() threw: the throw skips the track.stop() that follows
\* the reading, the stream stays live and nothing refers to it
probeUnreadable(w, p) ==
    probeFailed([w EXCEPT !.md.leaked = @ + 1], p)

\* the capabilities were read: the tracks are stopped, the data returned
probed(w, p) ==
    [w |-> [w EXCEPT !.returned = <<Probe(p.dev, Width(0), Width(MaxRes),
                                          Height(0), Height(MaxRes))>>],
     p |-> p, out |-> "probed", thrown |-> NoError]

ProbeDone ==
    /\ proc.pc = "probe"
    /\ \E outcome \in ProbeOutcomes :
          /\ outcome # "failed" => CanGrant(World)
          /\ Commit(IF outcome = "ok" THEN probed(World, Answered(proc, outcome))
                    ELSE IF outcome = "unreadable"
                         THEN probeUnreadable(World, Answered(proc, outcome))
                         ELSE probeFailed(World, Answered(proc, outcome)))

\* needsPermissionRequest() and hasPermissionDenied(): the tracked
\* permissions, the microphone's counted only with audio configured
needsPermissionRequest(w) ==
    \/ w.s.currentPermission.camera = "prompt"
    \/ (w.s.configuration.audio /\ w.s.currentPermission.microphone = "prompt")

hasPermissionDenied(w) ==
    \/ w.s.currentPermission.camera = "denied"
    \/ (w.s.configuration.audio /\ w.s.currentPermission.microphone = "denied")

\* ------------------------------------------------------------- specifications
Next ==
    \/ Start
    \/ PermVideoDone
    \/ ExactDone
    \/ PlayExactDone
    \/ AnyDone
    \/ PlayAnyDone
    \/ Stop
    \/ ClearError
    \/ SetupConfiguration
    \/ UpdateDevice
    \/ UpdateResolution
    \/ RefreshDevices
    \/ TrackEnded

Spec == Init /\ [][Next]_vars

\* The same with the change listeners: setupChangeListeners() and
\* stopChangeListeners() among the caller's calls, devicechange among the
\* platform's events.
NextEvents ==
    \/ Next
    \/ SetupChangeListeners
    \/ StopChangeListeners
    \/ DeviceChange

SpecEvents == Init /\ [][NextEvents]_vars

\* ------------------------------------------------------------- unplugging
\* A session with the change listeners set up, and devices that come and go.
NextUnplug ==
    \/ Start
    \/ PermVideoDone
    \/ ExactDone
    \/ PlayExactDone
    \/ AnyDone
    \/ PlayAnyDone
    \/ Stop
    \/ SetupConfiguration
    \/ SetupChangeListeners
    \/ DeviceChange
    \/ DeviceRemoved

SpecUnplug == Init /\ [][NextUnplug]_vars

\* ------------------------------------------------------------- negotiation
\* The negotiation of start() over every shape of configuration the object
\* can hold after setupConfiguration()/updateConfiguration(): the device
\* set or still null, the resolution absent, single, or a list (empty,
\* ascending, descending), with and without audio, swap, fallback, preview.
ResolutionInputs ==
    {AbsentResolution, SingleResolution(1), ResolutionArray(Descending(MaxRes))}
        \cup {ResolutionArray(Ascending(n)) : n \in 0..MaxRes}

NegotiationConfigurations ==
    [device : {NullDevice, 2},
     audio : BOOLEAN,
     allowSwapResolution : BOOLEAN,
     allowAnyResolution : BOOLEAN,
     previewElement : BOOLEAN,
     resolution : ResolutionInputs]

InitNegotiation ==
    /\ \E c \in NegotiationConfigurations :
          state = [InitialState EXCEPT
                      !.configuration = Merge(getDefaultConfiguration, c)]
    /\ listeners = [current |-> FALSE, attached |-> 0]
    /\ preview = [srcObject |-> NullStream, transform |-> "none"]
    /\ media = NoMedia
    /\ proc = IdleProc
    /\ ev = NoEvent

NextNegotiation ==
    \/ Start
    \/ PermVideoDone
    \/ PermAudioDone
    \/ ExactDone
    \/ PlayExactDone
    \/ AnyDone
    \/ PlayAnyDone
    \/ Stop

SpecNegotiation == InitNegotiation /\ [][NextNegotiation]_vars

\* The same with the platform answering every call it was made: the
\* promise start() awaits settles, so the continuation that awaits it is
\* run (JavaScript runs the reaction of a settled promise).
PlatformAnswers ==
    /\ WF_vars(PermVideoDone)
    /\ WF_vars(PermAudioDone)
    /\ WF_vars(ExactDone)
    /\ WF_vars(PlayExactDone)
    /\ WF_vars(AnyDone)
    /\ WF_vars(PlayAnyDone)

LiveNegotiation == SpecNegotiation /\ PlatformAnswers


\* ------------------------------------------------------------- toggling
\* A session on device 1 with one resolution, with and without a preview
\* element: start(), stop(), and the toggles among the caller's calls.
ToggleConfigurations ==
    [device : {1}, previewElement : BOOLEAN, resolution : {SingleResolution(1)}]

InitToggle ==
    /\ \E c \in ToggleConfigurations :
          state = [InitialState EXCEPT
                      !.configuration = Merge(getDefaultConfiguration, c)]
    /\ listeners = [current |-> FALSE, attached |-> 0]
    /\ preview = [srcObject |-> NullStream, transform |-> "none"]
    /\ media = NoMedia
    /\ proc = IdleProc
    /\ ev = NoEvent

NextToggle ==
    \/ Start
    \/ PermVideoDone
    \/ PermAudioDone
    \/ ExactDone
    \/ PlayExactDone
    \/ AnyDone
    \/ PlayAnyDone
    \/ Stop
    \/ ToggleMirror
    \/ Toggle
    \/ MicQueryDone
    \/ MicRequestDone
    \/ TrackEnded

SpecToggle == InitToggle /\ [][NextToggle]_vars

\* ------------------------------------------------------------- capturing
\* The same sessions with captureImage() at any moment, also while a
\* start() is in flight, and the resolution check of a probe list.
NextCapture ==
    \/ Start
    \/ PermVideoDone
    \/ ExactDone
    \/ PlayExactDone
    \/ AnyDone
    \/ PlayAnyDone
    \/ Stop
    \/ TrackEnded
    \/ CaptureImage
    \/ CheckSupportedResolutions

SpecCapture == InitToggle /\ [][NextCapture]_vars

\* ------------------------------------------------------------- overlapping
\* start(), stop() and clearError() in any interleaving: stop() and
\* clearError() also while a start() is in flight.
NextOverlap ==
    \/ Start
    \/ PermVideoDone
    \/ ExactDone
    \/ PlayExactDone
    \/ AnyDone
    \/ PlayAnyDone
    \/ Stop
    \/ ClearError
    \/ StopMeanwhile
    \/ ClearErrorMeanwhile
    \/ TrackEnded

SpecOverlap == InitToggle /\ [][NextOverlap]_vars

\* ------------------------------------------------------------- controlling
\* Sessions on the plain camera and on the camera with zoom, torch and
\* focus, without preview element, and the three controls.
ControlConfigurations ==
    [device : Devices, resolution : {SingleResolution(1)}]

InitControl ==
    /\ \E c \in ControlConfigurations :
          state = [InitialState EXCEPT
                      !.configuration = Merge(getDefaultConfiguration, c)]
    /\ listeners = [current |-> FALSE, attached |-> 0]
    /\ preview = [srcObject |-> NullStream, transform |-> "none"]
    /\ media = NoMedia
    /\ proc = IdleProc
    /\ ev = NoEvent

NextControl ==
    \/ Start
    \/ PermVideoDone
    \/ ExactDone
    \/ AnyDone
    \/ Stop
    \/ TrackEnded
    \/ SetZoom
    \/ SetTorch
    \/ SetFocusMode
    \/ ApplyDone

SpecControl == InitControl /\ [][NextControl]_vars

\* ------------------------------------------------------------- controlling, stopped meanwhile
\* The same sessions with stop() also called while a start() or a control
\* awaits the platform.
NextControlOverlap ==
    \/ NextControl
    \/ StopMeanwhile

SpecControlOverlap == InitControl /\ [][NextControlOverlap]_vars

\* ------------------------------------------------------------- permissions
\* Sessions with the permission checks among the caller's calls.
NextPermissions ==
    \/ Start
    \/ PermVideoDone
    \/ ExactDone
    \/ PlayExactDone
    \/ AnyDone
    \/ PlayAnyDone
    \/ Stop
    \/ TrackEnded
    \/ CheckPermission
    \/ CheckPermissionDone

SpecPermissions == InitToggle /\ [][NextPermissions]_vars

\* ------------------------------------------------------------- resolutions
\* createResolution() on every name, width and height.
NextResolution ==
    \/ CreateResolution

SpecResolution == Init /\ [][NextResolution]_vars

\* ------------------------------------------------------------- probing
\* Sessions with and without audio, and the transient acquisitions among
\* the caller's calls: requestPermissions() and the capability probe.
ProbeConfigurations ==
    [device : {1}, audio : BOOLEAN, resolution : {SingleResolution(1)}]

InitProbe ==
    /\ \E c \in ProbeConfigurations :
          state = [InitialState EXCEPT
                      !.configuration = Merge(getDefaultConfiguration, c)]
    /\ listeners = [current |-> FALSE, attached |-> 0]
    /\ preview = [srcObject |-> NullStream, transform |-> "none"]
    /\ media = NoMedia
    /\ proc = IdleProc
    /\ ev = NoEvent

NextProbe ==
    \/ Start
    \/ PermVideoDone
    \/ PermAudioDone
    \/ ExactDone
    \/ AnyDone
    \/ Stop
    \/ TrackEnded
    \/ RequestPermissions
    \/ RequestVideoDone
    \/ RequestAudioDone
    \/ CheckDevicesCapabilitiesData
    \/ ProbeDone

SpecProbe == InitProbe /\ [][NextProbe]_vars

\* ------------------------------------------------------------- properties
\* The platform calls of the start() in flight, or of the one that settled
\* in the last step.
RequestLog == IF proc.pc # "idle" THEN proc.log ELSE ev.log

OfKind(log, kind) == SelectSeq(log, LAMBDA q : q.kind = kind)

\* the candidate requested at position j of the log succeeded: its stream
\* was granted and the play() that followed, if any, did not fail
CandidateSucceeded(log, j) ==
    /\ log[j].kind = "exact"
    /\ log[j].outcome = "ok"
    /\ ~(j < Len(log) /\ log[j + 1].kind = "play" /\ log[j + 1].outcome = "failed")

PermissionErrorCodes == {"permission-denied", "microphone-permission-denied"}

\* a start() has settled in which every candidate of a given resolution
\* (list) failed: the permissions passed and no candidate won
CandidatesAllFailed ==
    /\ ev.result # "none"
    /\ state.configuration.resolution.kind # "absent"
    /\ ev.thrown.code \notin PermissionErrorCodes
    /\ ev.won.kind # "exact"

\* C1: in every reachable state, status = Ready implies that the held
\* stream is non-null and live.
C1_ReadyHoldsLiveStream ==
    state.status = "ready" => (state.stream # NullStream /\ media.live)

\* C2: in every reachable state, status Idle or Error implies that the held
\* stream is null, also after a start() that failed part-way and after an
\* enumeration error reported while Ready.
C2_IdleOrErrorHoldsNoStream ==
    state.status \in {"idle", "error"} => state.stream = NullStream

\* C3: start() requests the candidates of the resolution list as exact
\* acquisitions strictly in list order and one at a time (only the last
\* call of the log can be pending); once a candidate has succeeded (stream
\* granted, preview playing) no later candidate and no any-resolution
\* request follows, start() resolves, and the session is Ready on the
\* stream acquired for that candidate.
C3_CandidatesInListOrder ==
    LET log == RequestLog
        exact == OfKind(log, "exact")
        list == state.configuration.resolution.list
    IN /\ Len(exact) <= Len(list)
       /\ \A j \in 1..Len(exact) :
             /\ exact[j].res = list[j]
             /\ exact[j].dev = state.configuration.device
       /\ \A j \in 1..Len(log) : log[j].outcome = "pending" => j = Len(log)
       /\ \A j \in 1..Len(log) :
             CandidateSucceeded(log, j) =>
                 /\ \A k \in (j + 1)..Len(log) : log[k].kind \notin {"exact", "any"}
                 /\ log[Len(log)].outcome # "pending" =>
                        (ev.result = "resolved" /\ ev.won.kind = "exact")
       /\ ev.won.kind = "exact" =>
             /\ exact # <<>>
             /\ ev.won.res = exact[Len(exact)].res
             /\ state.status = "ready"
             /\ state.stream # NullStream
             /\ state.stream = ev.won.stream
             /\ media.dev = exact[Len(exact)].dev
             /\ ev.onStart = <<[status |-> "ready", stream |-> state.stream]>>

C3_Witness ==
    /\ ev.won.kind = "exact"
    /\ Len(OfKind(ev.log, "exact")) = 2
    /\ state.configuration.resolution.list = Descending(MaxRes)
    /\ ev.won.res = Descending(MaxRes)[2]

\* C4: when every candidate of a non-empty resolution list has failed and
\* allowAnyResolution is false, start() rejects with the failure recorded
\* for the last candidate of the list, which is also stored as lastError,
\* and the log holds no any-resolution request.
C4_LastCandidateFailureSurfaces ==
    LET list == state.configuration.resolution.list
    IN (CandidatesAllFailed /\ ~state.configuration.allowAnyResolution /\ list # <<>>) =>
          /\ ev.result = "rejected"
          /\ ev.thrown = CandidateError(list[Len(list)])
          /\ state.lastError = ev.thrown
          /\ OfKind(ev.log, "any") = <<>>

C4_Witness ==
    /\ ev.result = "rejected"
    /\ ~state.configuration.allowAnyResolution
    /\ state.configuration.resolution.list = Descending(MaxRes)
    /\ Len(OfKind(ev.log, "exact")) = MaxRes
    /\ ev.thrown = CandidateError(1)

\* the any-resolution request of the log was granted
AnyGranted(log) == \E j \in 1..Len(log) : log[j].kind = "any" /\ log[j].outcome = "ok"

\* the last call of the log is a play() that failed
PlayFailed(log) ==
    log # <<>> /\ log[Len(log)].kind = "play" /\ log[Len(log)].outcome = "failed"

C6_SuccessOrder ==
    ev.result = "resolved" =>
        /\ state.status = "ready"
        /\ state.stream # NullStream
        /\ ev.onStart = <<[status |-> "ready", stream |-> state.stream]>>
        /\ ev.onError = <<>>
        /\ state.capabilities = TrackCapabilities(media.dev)
        /\ state.configuration.previewElement =>
              /\ preview.srcObject = state.stream
              /\ preview.transform =
                    IF state.configuration.mirrorEnabled THEN "scaleX(-1)" ELSE "none"

C6_Witness ==
    /\ ev.result = "resolved"
    /\ state.configuration.previewElement
    /\ preview.srcObject = state.stream
    /\ state.capabilities.hasZoom

\* C7: when start() rejects, status is Error, lastError is the error it
\* rejects with, and onError was invoked once, with that same error.
C7_FailureSurfaces ==
    ev.result = "rejected" =>
        /\ state.status = "error"
        /\ ev.thrown # NoError
        /\ state.lastError = ev.thrown
        /\ ev.onError = <<ev.thrown>>
        /\ ev.onStart = <<>>

C7_Witness ==
    /\ ev.result = "rejected"
    /\ ev.thrown = Err("configuration-error", 0)
    /\ state.status = "error"

\* C8: every step that takes status from another value into Error invokes
\* onError exactly once, with the error then stored as lastError.
C8_ErrorTransitionNotifies ==
    [][(state.status # "error" /\ state'.status = "error") =>
          ev'.onError = <<state'.lastError>>]_vars

C8_Witness ==
    /\ state.status = "error"
    /\ state.stream # NullStream
    /\ state.lastError = Err("device-list-error", 0)
    /\ ev.onError = <<state.lastError>>

\* C9: a stop() made with no start() in flight leaves status Idle and the
\* held stream null, stops the tracks of the stream that was held (it is
\* not left live), resets srcObject of the configured preview element, and
\* leaves the capability snapshot at the no-capability defaults.
C9_StopReleasesEverything ==
    [][Stop =>
          /\ state'.status = "idle"
          /\ state'.stream = NullStream
          /\ state'.lastError = NoError
          /\ ev'.stopped = (IF state.stream # NullStream THEN {state.stream} ELSE {})
          /\ ~media'.live
          /\ media'.leaked = media.leaked
          /\ state.configuration.previewElement => preview'.srcObject = NullStream
          /\ state'.capabilities = NoCapabilities]_vars

C9_Witness ==
    /\ ev.stops = 1
    /\ ev.stopped # {}
    /\ state.configuration.previewElement
    /\ state.status = "idle"

\* C10: a stop() made right after a stop() changes nothing (status Idle,
\* stream null, the same configuration, catalog and permissions, preview
\* and streams as the first left them), stops nothing and throws nothing.
C10_StopIsIdempotent ==
    [][(Stop /\ ev.stops >= 1) =>
          /\ state' = state
          /\ preview' = preview
          /\ media' = media
          /\ listeners' = listeners
          /\ state'.status = "idle"
          /\ state'.stream = NullStream
          /\ ev'.stopped = {}
          /\ ev'.onError = <<>>
          /\ ev'.thrown = NoError]_vars

C10_Witness ==
    /\ ev.stops = 2
    /\ state.status = "idle"
    /\ state.devices # {}

\* C11: toggleMirror() called while status = Ready leaves the status Ready
\* and the held stream the same stream, live as before: nothing is stopped,
\* no acquisition is started, the preview element and the listeners are
\* untouched; the only field of the state that changes is the
\* configuration's mirrorEnabled, negated, which is also the value returned.
C11_ToggleMirrorKeepsSession ==
    [][(ToggleMirror /\ state.status = "ready") =>
          /\ state'.status = "ready"
          /\ state'.stream = state.stream
          /\ ev'.stopped = {}
          /\ media' = media
          /\ proc' = proc
          /\ preview' = preview
          /\ listeners' = listeners
          /\ state' = [state EXCEPT !.configuration.mirrorEnabled = ~@]
          /\ ev'.returned = <<state'.configuration.mirrorEnabled>>]_vars

\* the mirror flag was switched on in a Ready session: the preview that
\* start() set up unmirrored still shows the held stream
C11_Witness ==
    /\ state.status = "ready"
    /\ media.live
    /\ state.configuration.mirrorEnabled
    /\ ev.returned = <<TRUE>>
    /\ preview.srcObject = state.stream
    /\ preview.transform = "none"

\* C12: updateDevice(d) or updateResolution(r) called while status = Ready
\* releases the current stream (its tracks are stopped, the state holds it
\* no more) and leaves the status Initializing, the restart under way, so
\* that the old stream is never again the stream of a Ready session.
C12_ReconfigureRestarts ==
    [][((UpdateDevice \/ UpdateResolution) /\ state.status = "ready") =>
          /\ state.stream \in ev'.stopped
          /\ state'.stream = NullStream
          /\ state'.status = "initializing"
          /\ proc'.pc # "idle"]_vars

\* C13: updateConfiguration(partial, {restart: true}) on an active session
\* (updateDevice, updateResolution) does not throw: it returns the merged
\* configuration, which is the configuration stored. When the restart it
\* started fails later, nothing reaches that caller: the restart ends with
\* status = Error, lastError set to a CameraError and onError invoked with it.
C13_RestartFailureNotThrown ==
    [][/\ ((UpdateDevice \/ UpdateResolution) /\ isActive(World)) =>
             /\ ev'.thrown = NoError
             /\ ev'.returned = <<state'.configuration>>
             /\ \/ \E d \in Devices :
                       state'.configuration =
                           Merge(state.configuration, [device |-> d])
                \/ \E r \in {SingleResolution(1), ResolutionArray(Ascending(MaxRes))} :
                       state'.configuration =
                           Merge(state.configuration, [resolution |-> r])
             /\ proc'.viaRestart
       /\ (proc.viaRestart /\ ev'.result = "rejected") =>
             /\ state'.status = "error"
             /\ IsCameraError(state'.lastError)
             /\ ev'.onError = <<state'.lastError>>]_vars

\* a restart started by updateDevice/updateResolution has failed
C13_Witness ==
    /\ ev.restart
    /\ ev.result = "rejected"
    /\ state.status = "error"
    /\ ev.onError = <<state.lastError>>

\* C14: toggle('audio') with audio off and the microphone permission
\* denied (the permission query answers denied, or it gives no answer and
\* the request that follows is refused with NotAllowedError) rejects with
\* microphone-permission-denied and returns nothing; configuration.audio
\* stays false, the whole configuration, the status, the held stream and
\* the platform's streams are as before, nothing is stopped and no restart
\* is started.
C14_DeniedMicrophoneRefusesAudio ==
    [][((MicQueryDone \/ MicRequestDone)
            /\ state'.currentPermission.microphone = "denied") =>
          /\ ev'.result = "refused"
          /\ ev'.thrown = Err("microphone-permission-denied", 0)
          /\ ev'.returned = <<>>
          /\ ~state.configuration.audio
          /\ state'.configuration = state.configuration
          /\ state'.status = state.status
          /\ state'.stream = state.stream
          /\ media' = media
          /\ preview' = preview
          /\ ev'.stopped = {}
          /\ proc'.pc = "idle"]_vars

\* toggle('audio') was refused in a Ready session holding a live stream
C14_Witness ==
    /\ ev.result = "refused"
    /\ ev.thrown = Err("microphone-permission-denied", 0)
    /\ ev.log[Len(ev.log)].outcome \in {"denied", "NotAllowedError"}
    /\ state.status = "ready"
    /\ media.live
    /\ ~state.configuration.audio

\* C15: a toggle(s) that succeeds, for each of the three settings, returns
\* the negation of the value s had, and when it returns the stored
\* configuration is the prior one with s set to the returned value (while
\* toggle('audio') awaits the permission, audio is still off). Applying
\* toggle(s) to the outcome of toggle(s) gives s its original value back.
C15_ToggleNegates ==
    [][/\ proc.pc \in {"micQuery", "micRequest"} => ~state.configuration.audio
       /\ ((Toggle \/ MicQueryDone \/ MicRequestDone) /\ ev'.returned # <<>>) =>
             \E s \in ToggleSettings :
                /\ ev'.returned = <<~state.configuration[s]>>
                /\ state'.configuration = [state.configuration EXCEPT ![s] = ~@]
                /\ state'.configuration[s] = ev'.returned[1]
                /\ proc.pc # "idle" => s = "audio"
       /\ \A s \in ToggleSettings :
             LET once == toggleApply(World, IdleProc, s, ~state.configuration[s]).w
                 twice == toggleApply(once, IdleProc, s, ~once.s.configuration[s]).w
             IN /\ once.s.configuration[s] = ~state.configuration[s]
                /\ twice.s.configuration = state.configuration]_vars

\* toggle('audio') has switched audio on in an active session and returned
\* true, the restart it started is under way
C15_Witness ==
    /\ ev.returned = <<TRUE>>
    /\ state.configuration.audio
    /\ state.currentPermission.microphone = "granted"
    /\ proc.pc = "permVideo"
    /\ proc.viaRestart
    /\ ev.stopped # {}

\* C16: captureImage() called whenever status is not Ready (Idle, Error,
\* Initializing, the window between the acquisition of the stream and the
\* transition to Ready included) fails with no-stream and changes nothing
\* of the session.
C16_CaptureNeedsReady ==
    [][(CaptureImage /\ state.status # "ready") =>
          /\ ev'.thrown = Err("no-stream", 0)
          /\ ev'.returned = <<>>
          /\ state' = state
          /\ preview' = preview
          /\ media' = media
          /\ proc' = proc]_vars

\* C19: whatever a public operation throws or rejects with is a CameraError
\* whose code is one of the taxonomy, never a raw fault or null.
C19_FailuresAreCameraErrors ==
    ev.thrown # NoError => IsCameraError(ev.thrown)

\* C17: when the camera permission request of start() is refused
\* (NotAllowedError, classified denied), start() makes no exact, no
\* any-resolution and no play request and asks for the camera only once,
\* and it rejects with permission-denied, status = Error; when audio is
\* configured, the camera is not denied and the microphone request is
\* refused, likewise with microphone-permission-denied.
C17_DeniedPermissionStopsStart ==
    LET log == RequestLog
        cameraDenied == Len(log) >= 1 /\ log[1].outcome = "NotAllowedError"
        microphoneDenied ==
            /\ state.configuration.audio
            /\ Len(log) >= 2
            /\ log[1].outcome # "NotAllowedError"
            /\ log[2].outcome = "NotAllowedError"
        settledWith(code) ==
            proc.pc = "idle" =>
                /\ ev.result = "rejected"
                /\ ev.thrown = Err(code, 0)
                /\ state.status = "error"
                /\ state.lastError = Err(code, 0)
    IN /\ (cameraDenied \/ microphoneDenied) =>
             /\ \A j \in 1..Len(log) : log[j].kind \in {"video", "audio"}
             /\ Len(OfKind(log, "video")) = 1
             /\ Len(OfKind(log, "audio")) <= 1
       /\ cameraDenied => settledWith("permission-denied")
       /\ microphoneDenied => settledWith("microphone-permission-denied")

\* a start() with candidates to try was refused the camera and has failed
C17_Witness ==
    /\ ev.result = "rejected"
    /\ ev.thrown = Err("permission-denied", 0)
    /\ ev.log[1].outcome = "NotAllowedError"
    /\ Len(state.configuration.resolution.list) = MaxRes
    /\ state.configuration.allowAnyResolution

\* C18: a device-change event that arrives once setupChangeListeners() has
\* been called re-enumerates the catalog; when the session is active and
\* the configured device is missing from the refreshed catalog, the
\* session is force-stopped (the stream released, the status no longer
\* Ready) and a no-device error is raised through onError.
C18_RemovedDeviceStopsSession ==
    [][DeviceRemoved =>
          /\ state'.devices # Devices
          /\ (isActive(World) /\ state.configuration.device \notin state'.devices) =>
                /\ state.stream \in ev'.stopped
                /\ state'.stream = NullStream
                /\ state'.status # "ready"
                /\ \E j \in 1..Len(ev'.onError) : ev'.onError[j].code = "no-device"]_vars

\* C20: on an instance on which setupConfiguration() has never succeeded
\* (the configured device is still null: only a successful
\* setupConfiguration() or an updateDevice() sets it), start(), stop() and
\* updateConfiguration() fail with a configuration error and change
\* nothing.
C20_UnconfiguredCallsFail ==
    [][((Start \/ Stop \/ UpdateDevice \/ UpdateResolution)
            /\ state.configuration.device = NullDevice) =>
          /\ ev'.thrown = Err("configuration-error", 0)
          /\ state' = state
          /\ preview' = preview
          /\ media' = media
          /\ proc' = proc]_vars

\* The error codes of the taxonomy's configuration group.
ConfigurationErrorCodes ==
    {"configuration-error", "invalid-device-id", "no-resolutions", "no-device",
     "no-media-devices-support"}

\* C21: setupConfiguration(config) either succeeds, and then the stored
\* configuration has a device, or it throws an error of the configuration
\* group and the stored configuration, the status, the stream and all the
\* rest are as before: with the device absent only the second can happen.
C21_SetupWithoutDeviceFails ==
    [][SetupConfiguration =>
          \/ /\ ev'.thrown = NoError
             /\ state'.configuration.device # NullDevice
          \/ /\ ev'.thrown.code \in ConfigurationErrorCodes
             /\ state' = state
             /\ preview' = preview
             /\ media' = media
             /\ proc' = proc]_vars

\* a setupConfiguration() without device was refused on a Ready session,
\* whose configuration is still the one stored before
C21_Witness ==
    /\ ev.thrown = Err("invalid-device-id", 0)
    /\ state.configuration.device = 1
    /\ state.status = "ready"
    /\ media.live

\* C22: clearError(), whenever it is called, sets lastError to null; when
\* the session is not active it sets the status to Idle, when the session
\* is active it leaves the status as it is; the held stream, the
\* configuration and the platform's streams are untouched either way.
C22_ClearError ==
    [][(ClearError \/ ClearErrorMeanwhile) =>
          /\ state'.lastError = NoError
          /\ state'.status = IF isActive(World) THEN state.status ELSE "idle"
          /\ state'.stream = state.stream
          /\ state'.configuration = state.configuration
          /\ media' = media
          /\ preview' = preview
          /\ ev'.thrown = NoError
          /\ ev'.stopped = {}]_vars

\* clearError() on a session in Error that holds a live stream: the error
\* was cleared and the status left
C22_Witness ==
    /\ state.status = "error"
    /\ state.lastError = NoError
    /\ isActive(World)

\* C27: under any interleaving of start(), stop(), clearError() and the
\* platform's completions, no step takes the status to Ready from anything
\* but Initializing.
C27_ReadyOnlyFromInitializing ==
    [][(state'.status = "ready" /\ state.status # "ready") =>
          state.status = "initializing"]_vars

\* C23: setZoom, setTorch and setFocusMode reject with their own
\* not-supported error when no stream is held or the held stream's device
\* lacks the capability, and with camera-settings-error when the platform
\* rejects the constraint; whenever one of them fails, the whole state (so
\* the capability snapshot, the status and lastError) is as before and
\* onError is not invoked.
C23_ControlFailures ==
    [][/\ (SetZoom /\ (state.stream = NullStream \/ ~state.capabilities.hasZoom)) =>
             ev'.thrown = Err("zoom-not-supported", 0)
       /\ (SetTorch /\ (state.stream = NullStream \/ ~state.capabilities.hasTorch)) =>
             ev'.thrown = Err("torch-not-supported", 0)
       /\ (SetFocusMode /\ (state.stream = NullStream \/ ~state.capabilities.hasFocus)) =>
             ev'.thrown = Err("focus-not-supported", 0)
       /\ (ApplyDone /\ ev'.log[1].outcome = "failed") =>
             ev'.thrown = Err("camera-settings-error", 0)
       /\ ((SetZoom \/ SetTorch \/ SetFocusMode \/ ApplyDone)
               /\ ev'.thrown # NoError) =>
             /\ ev'.result = "refused"
             /\ state' = state
             /\ media' = media
             /\ ev'.onError = <<>>
             /\ proc' = IdleProc]_vars

\* the platform rejected a constraint on a Ready session of the camera
\* that has the capabilities
C23_Witness ==
    /\ ev.thrown = Err("camera-settings-error", 0)
    /\ ev.result = "refused"
    /\ state.status = "ready"
    /\ state.capabilities.hasZoom
    /\ media.live

\* C24: checkCameraPermission() and checkMicrophonePermission() never
\* fail: they resolve with the platform's answer when the query gives
\* one, and with prompt when the query primitive is missing or the query
\* fails; the tracked permission of that kind is the value returned, the
\* other kind's is as before, and the status, the stream, the
\* configuration and the platform's streams are unchanged.
C24_PermissionCheckNeverFails ==
    [][CheckPermissionDone =>
          LET name == proc.log[1].kind
              answer == ev'.log[1].outcome
          IN /\ ev'.thrown = NoError
             /\ ev'.result = "checked"
             /\ ev'.returned = <<IF answer \in PermissionState THEN answer ELSE "prompt">>
             /\ state'.currentPermission[name] = ev'.returned[1]
             /\ \A other \in PermissionNames \ {name} :
                   state'.currentPermission[other] = state.currentPermission[other]
             /\ state'.status = state.status
             /\ state'.stream = state.stream
             /\ state'.configuration = state.configuration
             /\ state'.lastError = state.lastError
             /\ media' = media
             /\ ev'.onError = <<>>]_vars

\* a permission check whose query gave no answer has resolved with prompt,
\* on a Ready session that had the camera permission granted
C24_Witness ==
    /\ ev.result = "checked"
    /\ ev.log[1].kind = "camera"
    /\ ev.log[1].outcome = "unavailable"
    /\ ev.returned = <<"prompt">>
    /\ state.currentPermission.camera = "prompt"
    /\ state.status = "ready"

\* C25: checkSupportedResolutions(probes, desired), with a first probe to
\* read, returns one entry per desired resolution, in the same order and
\* with its key, width and height, whose supported flag is true exactly
\* when minWidth <= width <= maxWidth and minHeight <= height <= maxHeight
\* for the bounds of probes[0]; the result is the one the first probe alone
\* gives, and deviceInfo reports the id and the bounds of probes[0].
C25_SupportedResolutions ==
    (ev.called # <<>> /\ ev.called[1] # <<>>) =>
        LET probes == ev.called[1]
            desired == ev.called[2]
            first == probes[1]
            result == ev.returned[1]
        IN /\ ev.thrown = NoError
           /\ Len(result.resolutions) = Len(desired)
           /\ \A i \in 1..Len(desired) :
                 LET e == result.resolutions[i]
                 IN /\ e.key = desired[i]
                    /\ e.width = Width(desired[i])
                    /\ e.height = Height(desired[i])
                    /\ e.supported <=>
                          /\ first.minWidth <= e.width
                          /\ e.width <= first.maxWidth
                          /\ first.minHeight <= e.height
                          /\ e.height <= first.maxHeight
           /\ ev.returned = checkSupportedResolutions(<<first>>, desired).returned
           /\ result.deviceInfo =
                 [deviceId |-> first.deviceId,
                  minWidth |-> first.minWidth, maxWidth |-> first.maxWidth,
                  minHeight |-> first.minHeight, maxHeight |-> first.maxHeight]

\* the check was made with two probes of different bounds, and the first
\* probe refused a resolution below, and one above, its height
C25_Witness ==
    /\ ev.called # <<>>
    /\ Len(ev.called[1]) = 2
    /\ Len(ev.called[2]) = MaxRes + 1
    /\ ~ev.returned[1].resolutions[1].supported
    /\ ev.returned[1].resolutions[2].supported
    /\ ~ev.returned[1].resolutions[MaxRes + 1].supported

C28_PreviewFollowsMirror ==
    (state.status = "ready" /\ state.configuration.previewElement) =>
        ((preview.transform = "scaleX(-1)") <=> state.configuration.mirrorEnabled)

\* C29: a start() that got past the permissions with no resolution in the
\* configuration makes no exact request; with allowAnyResolution = false
\* it makes no any-resolution request either and rejects with
\* configuration-error; with allowAnyResolution = true it makes exactly
\* one any-resolution request.
C29_NoResolution ==
    LET log == ev.log
    IN (/\ proc.pc = "idle"
        /\ ev.result \in {"resolved", "rejected"}
        /\ state.configuration.resolution.kind = "absent"
        /\ ev.thrown.code \notin PermissionErrorCodes) =>
           /\ OfKind(log, "exact") = <<>>
           /\ IF state.configuration.allowAnyResolution
              THEN Len(OfKind(log, "any")) = 1
              ELSE /\ OfKind(log, "any") = <<>>
                   /\ ev.result = "rejected"
                   /\ ev.thrown = Err("configuration-error", 0)

C31_TransientAcquisitionsReleased ==
    [][(RequestVideoDone \/ RequestAudioDone \/ ProbeDone) =>
          /\ media' = media
          /\ state'.status = state.status
          /\ state'.stream = state.stream
          /\ state'.capabilities = state.capabilities]_vars

\* C32: when requestPermissions() returns, the camera was requested first;
\* the microphone was requested, after it, exactly if configuration.audio
\* is true, and is returned as prompt otherwise; the tracked permission of
\* each kind requested is the value returned for it.
C32_CameraThenMicrophone ==
    ev.result = "permitted" =>
        LET returned == ev.returned[1]
            audio == state.configuration.audio
        IN /\ ev.log[1].kind = "video"
           /\ Len(ev.log) = IF audio THEN 2 ELSE 1
           /\ audio => ev.log[2].kind = "audio"
           /\ \A j \in 1..Len(ev.log) : ev.log[j].outcome # "pending"
           /\ returned.camera = permissionOf(ev.log[1].outcome)
           /\ returned.camera = state.currentPermission.camera
           /\ IF audio
              THEN /\ returned.microphone = permissionOf(ev.log[2].outcome)
                   /\ returned.microphone = state.currentPermission.microphone
              ELSE returned.microphone = "prompt"

\* requestPermissions() has returned with the camera granted and the
\* microphone denied
C32_Witness ==
    /\ ev.result = "permitted"
    /\ state.configuration.audio
    /\ ev.returned = <<[camera |-> "granted", microphone |-> "denied"]>>
    /\ Len(ev.log) = 2

\* C33: in every reachable state in which state.stream is null the
\* capability snapshot is the no-capability defaults.
C33_NoStreamNoCapabilities ==
    state.stream = NullStream => state.capabilities = NoCapabilities

\* C34: with the platform answering every call and no other call made
\* while a start() is in flight, every start() in flight settles; when it
\* has resolved the status is Ready, when it has rejected the status is
\* Error, and no settled start() leaves the status Initializing.
C34_StartSettles ==
    /\ (proc.pc # "idle") ~> (proc.pc = "idle" /\ ev.result \in {"resolved", "rejected"})
    /\ [](ev.result = "resolved" => state.status = "ready")
    /\ [](ev.result = "rejected" => state.status = "error")
    /\ [](proc.pc = "idle" => state.status # "initializing")

\* a start() has rejected after both candidates and the fallback failed
C34_Witness ==
    /\ ev.result = "rejected"
    /\ state.status = "error"
    /\ Len(OfKind(ev.log, "exact")) = 2
    /\ Len(OfKind(ev.log, "any")) = 1

\* C35: whenever no operation is in flight (the calls do not overlap),
\* every stream acquired from the platform is the held stream or has had
\* its tracks stopped: no live stream is left that nothing refers to, and
\* a start() that failed after a candidate's stream was acquired does not
\* leave that stream live.
C35_NoStreamLeaked ==
    proc.pc = "idle" =>
        /\ media.leaked = 0
        /\ (/\ ev.result = "rejected"
            /\ \E j \in 1..Len(ev.log) :
                  ev.log[j].kind \in {"exact", "any"} /\ ev.log[j].outcome = "ok") =>
               ~isActive(World)

\* C36: whenever no operation is in flight, status = Error exactly when
\* lastError is non-null.
C36_ErrorIffLastError ==
    proc.pc = "idle" => ((state.status = "error") <=> (state.lastError # NoError))

\* C37: whenever no operation is in flight and status = Ready, the held
\* stream was acquired from the device stored in configuration.device.
C37_ReadyStreamOfConfiguredDevice ==
    (proc.pc = "idle" /\ state.status = "ready") =>
        media.dev = state.configuration.device

\* C38: when start() has resolved (status Ready) the tracked camera
\* permission is granted, and the tracked microphone permission too if
\* audio is configured, so that needsPermissionRequest() and
\* hasPermissionDenied() are both false.
C38_ReadyHasPermissions ==
    (ev.result = "resolved" /\ state.status = "ready") =>
        /\ state.currentPermission.camera = "granted"
        /\ state.configuration.audio => state.currentPermission.microphone = "granted"
        /\ ~needsPermissionRequest(World)
        /\ ~hasPermissionDenied(World)

\* C39: the listeners setupChangeListeners() attached stay attached (a
\* devicechange goes on refreshing the catalog) over every step that is not
\* a stopChangeListeners() of the caller, a stop() and a restart included;
\* and after a stopChangeListeners() no listener of the instance is
\* attached.
C39_ListenersUntilStopped ==
    [][/\ (listeners.attached > 0 /\ ~StopChangeListeners) =>
             listeners'.attached >= listeners.attached
       /\ StopChangeListeners => listeners'.attached = 0]_vars

\* C40: whenever a toggle('audio') returns true (audio was off and is
\* switched on), the tracked microphone permission is granted, whatever
\* the permission query and the permission request gave.
C40_AudioOnlyWhenGranted ==
    [][((Toggle \/ MicQueryDone \/ MicRequestDone)
            /\ ~state.configuration.audio
            /\ state'.configuration.audio
            /\ ev'.returned = <<TRUE>>) =>
          state'.currentPermission.microphone = "granted"]_vars
====
